---- MODULE Spec2Model ----
(***************************************************************************)
(* Meeting lifecycle of the student-council backend: the Meeting model     *)
(* (schema, pre-save hook, instance methods), the route handlers of        *)
(* /api/meetings and the handlers of meetingController.js, over a document *)
(* store with a unique index on meetingId and an Archive collection.       *)
(*                                                                         *)
(* Modelling notes.                                                        *)
(*  - A document is a record of the schema paths the handlers read or      *)
(*    write.  minutes.summary unset and the empty string are both "" (the  *)
(*    handlers only test its truthiness).  The paths of the nested         *)
(*    `minutes` object are fields of the record itself.                    *)
(*  - toObject() inside the pre-save hook is the document as it stands in  *)
(*    the hook (new field values, version already incremented); the        *)
(*    snapshot keeps every modelled path except previousVersions itself.   *)
(*  - meetingId "SC-YYYY-MM-DD-NNN" is the pair (day, NNN).                *)
(*  - Schema-level `required` validation is not modelled: a document is    *)
(*    stored with the paths its handler supplies.                          *)
(*  - A response carries the transporter.sendMail calls its handler made;  *)
(*    a call that addresses several users is one attempt for each of them. *)
(*  - An attendee subdocument carries the _id Mongoose generates for it,   *)
(*    which is the key DocumentArray.id() looks up.                        *)
(*  - Of the users collection only performance.meetingsAttended and       *)
(*    performance.tasksCompleted are kept.                                 *)
(***************************************************************************)
EXTENDS Integers, Sequences, FiniteSets, TLC

\* ---------------------------------------------------------------- bounds
\* documents ever inserted into the meetings collection
MaxMeetings == 3
\* cap on a document's version (number of hook-versioned saves)
MaxVersion == 3
\* Math.random() suffixes drawn by generateMeetingId: 0 .. RandRange-1
RandRange == 2
\* calendar days the clock runs through
MaxDay == 2
\* requests in flight at once
MaxReq == 2

\* ------------------------------------------------------ program constants
\* previousData.slice(-5)
KeepVersions == 5
\* version: { default: 1 }
DefaultVersion == 1

Ids == 1..MaxMeetings
Slots == 1..MaxReq

\* ----------------------------------------------------------------- users
NoUser == "none"
Users == {"ctl", "sec", "mem"}

\* User.role
RoleOf(u) ==
  CASE u = "ctl" -> "Controller"
    [] u = "sec" -> "Secretary"
    [] OTHER -> "Member"

\* User.isController
IsControllerFlag(u) == u = "ctl"

\* User.preferences.notifications.email
EmailPref(u) == u # "mem"

\* authorizeRoles(...roles): roles.includes(req.user.role)
AuthorizeRoles(roles, u) == RoleOf(u) \in roles

\* isController middleware: req.user.isController
IsController(u) == IsControllerFlag(u)

\* --------------------------------------------------------------- documents
Statuses == {"draft", "scheduled", "in-progress", "completed", "cancelled", "postponed"}
AttStatuses == {"present", "absent", "late", "excused"}

NoDoc == [absent |-> TRUE]

MeetingId(day, seq) == [day |-> day, seq |-> seq]

\* The schema paths of a meeting document
NewDoc(mid, day, title, status, chair, creator, att) ==
  [ meetingId |-> mid,
    createdDay |-> day,
    title |-> title,
    status |-> status,
    archived |-> FALSE,
    published |-> FALSE,
    publishedBy |-> NoUser,
    summary |-> "",
    keyPoints |-> <<>>,
    attachments |-> <<>>,
    decisions |-> <<>>,
    actionItems |-> <<>>,
    nextMeeting |-> "",
    attendees |-> att,
    chairperson |-> chair,
    createdBy |-> creator,
    updatedBy |-> NoUser,
    version |-> DefaultVersion,
    previousVersions |-> <<>>,
    __v |-> 0 ]

VARIABLES
  meetings,   \* the meetings collection: _id -> document or NoDoc
  nextId,     \* the next _id the store hands out
  archives,   \* the Archive collection, in insertion order
  today,      \* the calendar day of new Date()
  creq,       \* requests in flight: slot -> request
  resp,       \* the response of the last handler that ran
  perf        \* the users collection: user -> performance counters

vars == <<meetings, nextId, archives, today, creq, resp, perf>>

Exists(store, id) == id \in Ids /\ store[id] # NoDoc

\* ------------------------------------------------------- response records
\* transporter.sendMail was not called
NoMail == <<>>

\* one transporter.sendMail call: the users addressed and whether it delivered
Attempt(to, ok) == [to |-> to, ok |-> ok]

\* `mails`: the transporter.sendMail calls the handler made, in order
Resp(op, id, code, err, mails) ==
  [op |-> op, id |-> id, code |-> code, err |-> err, mails |-> mails]

NoResp == Resp("none", 0, 0, "", NoMail)

Idle == [pc |-> "idle"]

\* ------------------------------------------------------------ meeting ids
\* countDocuments({createdAt: {$gte: start of today, $lt: end of today}})
CountToday(store, day) ==
  Cardinality({i \in Ids : store[i] # NoDoc /\ store[i].createdDay = day})

\* pre('save'): `SC-${year}-${month}-${day}-${String(count + 1).padStart(3, '0')}`
HookMeetingId(day, count) == MeetingId(day, count + 1)

\* generateMeetingId(): today's date and the random suffix
GenerateMeetingId(day, random) == MeetingId(day, random)

\* unique: true on meetingId: the insert is refused with a duplicate-key error
DuplicateKey(store, mid) ==
  \E i \in Ids : store[i] # NoDoc /\ store[i].meetingId = mid


\* ----------------------------------------------------------- save / hook
\* previousData.slice(-n)
LastN(s, n) == IF Len(s) <= n THEN s ELSE SubSeq(s, Len(s) - n + 1, Len(s))

\* this.toObject() as the hook sees it (previousVersions left out, see above)
Snapshot(doc) == [f \in (DOMAIN doc) \ {"previousVersions"} |-> doc[f]]

\* pre('save') on a stored document: `doc` carries the values being saved,
\* `modified` is this.isModified().  The hook assigns the previousVersions
\* array, and a save that $sets an array increments the revision key __v
PreSave(doc, modified) ==
  IF modified
  THEN LET bumped == [doc EXCEPT !.version = @ + 1]
           entry == [ data |-> Snapshot(bumped),
                      version |-> bumped.version - 1,
                      updatedBy |-> bumped.updatedBy ]
       IN [bumped EXCEPT !.previousVersions =
                           LastN(Append(doc.previousVersions, entry), KeepVersions),
                         !.__v = @ + 1]
  ELSE doc

\* document.save() of a document loaded as `old` and changed to `new`;
\* `touched`: the handler also assigned a fresh Date to a schema path
Save(old, new, touched) == PreSave(new, touched \/ new # old)

\* findByIdAndUpdate(id, body): the body's paths are $set; no save hook runs
ApplyPatch(doc, patch) ==
  [f \in DOMAIN doc |-> IF f \in DOMAIN patch THEN patch[f] ELSE doc[f]]

\* ------------------------------------------------------ handler results
Out(store, arch, r) == [store |-> store, archives |-> arch, resp |-> r, perf |-> perf]

\* a handler outcome that also wrote the users collection
OutPerf(store, arch, r, p) == [store |-> store, archives |-> arch, resp |-> r, perf |-> p]

\* $inc / updatePerformance(1, 0): performance.meetingsAttended += 1
IncAttended(p, u) == [p EXCEPT ![u].meetingsAttended = @ + 1]

\* updatePerformance(0, 1): performance.tasksCompleted += 1
IncTasks(p, u) == [p EXCEPT ![u].tasksCompleted = @ + 1]

\* res.status(code) with the collections as they were
Reject(op, id, code, err) == Out(meetings, archives, Resp(op, id, code, err, NoMail))

\* the ownership check of the controller handlers:
\*   !req.user.isController && createdBy.toString() !== id && chairperson.toString() !== id
\* createdBy is undefined on a document the route handler created: .toString() throws
OwnerCheck(doc, actor) ==
  IF IsControllerFlag(actor) THEN "ok"
  ELSE IF doc.createdBy = NoUser THEN "throws"
  ELSE IF doc.createdBy # actor /\ doc.chairperson # actor THEN "forbidden"
  ELSE "ok"

\* the _id Mongoose generates for the n-th subdocument of an array: an ObjectId
\* of its own, equal to no user's _id
ObjectIds == <<"oid1", "oid2", "oid3", "oid4", "oid5", "oid6">>

\* attendees.map(a => ({user: a.userId, status: a.status || 'present', ...}))
RouteAttendees(att) ==
  [i \in DOMAIN att |->
     [_id |-> ObjectIds[i],
      user |-> att[i].userId,
      status |-> IF att[i].status = "" THEN "present" ELSE att[i].status]]

\* attendees: attendees || [] cast by the schema (status default 'absent')
CtlAttendees(att) ==
  [i \in DOMAIN att |->
     [_id |-> ObjectIds[i],
      user |-> att[i].userId,
      status |-> IF att[i].status = "" THEN "absent" ELSE att[i].status]]

\* Meeting.create(doc): the unique index decides
Insert(store, id, doc) == [store EXCEPT ![id] = doc]

\* router.post('/'): generateMeetingId, then Meeting.create
CreateRouteResult(actor, chair, att, random) ==
  LET mid == GenerateMeetingId(today, random)
      doc == NewDoc(mid, today, "t1", "scheduled", chair, NoUser,
                    RouteAttendees(att))
  IN IF ~AuthorizeRoles({"Secretary", "President", "Controller"}, actor)
     THEN Reject("createRoute", 0, 403, "role")
     ELSE IF DuplicateKey(meetings, mid)
     THEN Reject("createRoute", 0, 500, "duplicate key")
     ELSE Out(Insert(meetings, nextId, doc), archives,
              Resp("createRoute", nextId, 201, "", NoMail))

\* createMeeting: Meeting.create without meetingId, the pre-save hook assigns it
CreateCtlResult(actor, att) ==
  LET mid == HookMeetingId(today, CountToday(meetings, today))
      doc == NewDoc(mid, today, "t1", "draft", actor, actor,
                    CtlAttendees(att))
  IN IF DuplicateKey(meetings, mid)
     THEN Reject("createCtl", 0, 500, "duplicate key")
     ELSE OutPerf(Insert(meetings, nextId, doc), archives,
                  Resp("createCtl", nextId, 201, "", NoMail),
                  IncAttended(perf, actor))

\* router.put('/:id')
UpdateRouteResult(id, actor, patch) ==
  IF ~AuthorizeRoles({"Secretary", "President", "Controller"}, actor)
  THEN Reject("updateRoute", id, 403, "role")
  ELSE IF ~Exists(meetings, id)
  THEN Reject("updateRoute", id, 404, "not found")
  ELSE LET new == ApplyPatch(meetings[id], patch)
       IN IF new.meetingId # meetings[id].meetingId /\ DuplicateKey(meetings, new.meetingId)
          THEN Reject("updateRoute", id, 500, "duplicate key")
          ELSE Out([meetings EXCEPT ![id] = new], archives,
                   Resp("updateRoute", id, 200, "", NoMail))

\* updateMeeting
UpdateCtlResult(id, actor, patch) ==
  IF ~Exists(meetings, id)
  THEN Reject("updateCtl", id, 404, "not found")
  ELSE LET doc == meetings[id]
           chk == OwnerCheck(doc, actor)
           new == [ApplyPatch(doc, patch) EXCEPT !.updatedBy = actor]
       IN IF chk = "throws" THEN Reject("updateCtl", id, 500, "owner check threw")
          ELSE IF chk = "forbidden" THEN Reject("updateCtl", id, 403, "owner")
          ELSE IF new.meetingId # doc.meetingId /\ DuplicateKey(meetings, new.meetingId)
          THEN Reject("updateCtl", id, 500, "duplicate key")
          ELSE Out([meetings EXCEPT ![id] = new], archives,
                   Resp("updateCtl", id, 200, "", NoMail))

\* req.body of a minutes request: `has` names the fields the body carries,
\* the others are undefined after destructuring
MinutesBody(has, summary, decisions, actionItems, nextMeeting) ==
  [ has |-> has, summary |-> summary, decisions |-> decisions,
    actionItems |-> actionItems, nextMeeting |-> nextMeeting ]

\* a || b on strings and objects: undefined, null and "" are falsy ("" stands
\* for an unset summary or nextMeeting)
OrElse(given, value, prior) == IF given /\ value # "" THEN value ELSE prior

\* a || b || [] on arrays: every array, the empty one too, is truthy, and a
\* Mongoose array path is [] when never set
OrElseArray(given, value, prior) == IF given THEN value ELSE prior

\* the minutes handler without `meeting.status = 'completed'`
UpdateMinutesResult_KeepStatus(id, actor, body) ==
  IF ~AuthorizeRoles({"Secretary", "Controller"}, actor)
  THEN Reject("updateMinutes", id, 403, "role")
  ELSE IF ~Exists(meetings, id)
  THEN Reject("updateMinutes", id, 404, "not found")
  ELSE LET doc == meetings[id]
           new == [doc EXCEPT
                     !.summary = OrElse("summary" \in body.has, body.summary, @),
                     !.decisions =
                        OrElseArray("decisions" \in body.has, body.decisions, @),
                     !.actionItems =
                        OrElseArray("actionItems" \in body.has, body.actionItems, @),
                     !.nextMeeting =
                        OrElse("nextMeeting" \in body.has, body.nextMeeting, @),
                     !.keyPoints = <<>>,
                     !.attachments = <<>>]
       IN Out([meetings EXCEPT ![id] = Save(doc, new, TRUE)], archives,
              Resp("updateMinutes", id, 200, "", NoMail))

\* the minutes handler without the `|| meeting.minutes?.x` fallbacks: the
\* minutes are what the body carries
UpdateMinutesResult_Wholesale(id, actor, body) ==
  IF ~AuthorizeRoles({"Secretary", "Controller"}, actor)
  THEN Reject("updateMinutes", id, 403, "role")
  ELSE IF ~Exists(meetings, id)
  THEN Reject("updateMinutes", id, 404, "not found")
  ELSE LET doc == meetings[id]
           new == [doc EXCEPT
                     !.summary = OrElse("summary" \in body.has, body.summary, ""),
                     !.decisions =
                        OrElseArray("decisions" \in body.has, body.decisions, <<>>),
                     !.actionItems =
                        OrElseArray("actionItems" \in body.has, body.actionItems, <<>>),
                     !.nextMeeting =
                        OrElse("nextMeeting" \in body.has, body.nextMeeting, ""),
                     !.keyPoints = <<>>,
                     !.attachments = <<>>,
                     !.status = "completed"]
       IN Out([meetings EXCEPT ![id] = Save(doc, new, TRUE)], archives,
              Resp("updateMinutes", id, 200, "", NoMail))

\* meeting.minutes = {...}; meeting.status = 'completed' on a loaded document.
\* Assigning an object to the nested path `minutes` replaces it: the paths the
\* object does not name (keyPoints, attachments) are left unset, [] when read
MinutesAssign(doc, body) ==
  [doc EXCEPT
     !.summary = OrElse("summary" \in body.has, body.summary, @),
     !.decisions = OrElseArray("decisions" \in body.has, body.decisions, @),
     !.actionItems = OrElseArray("actionItems" \in body.has, body.actionItems, @),
     !.nextMeeting = OrElse("nextMeeting" \in body.has, body.nextMeeting, @),
     !.keyPoints = <<>>,
     !.attachments = <<>>,
     !.status = "completed"]

\* router.put('/:id/minutes'): meeting.minutes = {...}, status, updatedAt, save
UpdateMinutesResult(id, actor, body) ==
  IF ~AuthorizeRoles({"Secretary", "Controller"}, actor)
  THEN Reject("updateMinutes", id, 403, "role")
  ELSE IF ~Exists(meetings, id)
  THEN Reject("updateMinutes", id, 404, "not found")
  ELSE LET doc == meetings[id]
       IN Out([meetings EXCEPT ![id] = Save(doc, MinutesAssign(doc, body), TRUE)],
              archives, Resp("updateMinutes", id, 200, "", NoMail))


\* the users of meeting.attendees.map(a => a.user) that User.find returns
AttendeeUsers(doc) == {doc.attendees[i].user : i \in DOMAIN doc.attendees} \cap Users

\* meetingSchema.methods.publish
PublishMethod(doc, userId) ==
  Save(doc, [doc EXCEPT !.published = TRUE, !.publishedBy = userId,
                        !.status = "completed"], TRUE)

\* an archive() that closes the meeting as publish() does
ArchiveMethod_Complete(doc) ==
  Save(doc, [doc EXCEPT !.archived = TRUE, !.status = "completed"], FALSE)

\* meetingSchema.methods.archive
ArchiveMethod(doc) == Save(doc, [doc EXCEPT !.archived = TRUE], FALSE)

\* restore that also assigns a fresh Date to a schema path: every call is a
\* modifying save
RestoreMethod_Touch(doc) == Save(doc, [doc EXCEPT !.archived = FALSE], TRUE)

\* meetingSchema.methods.restore
RestoreMethod(doc) == Save(doc, [doc EXCEPT !.archived = FALSE], FALSE)

\* router.post('/:id/publish'): one sendMeetingMinutes call for all attendees,
\* which catches its own failure; `delivered` is whether sendMail succeeds
PublishRouteResult(id, actor, delivered) ==
  IF ~AuthorizeRoles({"Secretary", "President", "Controller"}, actor)
  THEN Reject("publishRoute", id, 403, "role")
  ELSE IF ~Exists(meetings, id)
  THEN Reject("publishRoute", id, 404, "not found")
  ELSE IF meetings[id].summary = ""
  THEN Reject("publishRoute", id, 400, "minutes required")
  ELSE LET doc == meetings[id]
           new == Save(doc, [doc EXCEPT !.published = TRUE], TRUE)
       IN Out([meetings EXCEPT ![id] = new], archives,
              Resp("publishRoute", id, 200, "",
                   << Attempt(AttendeeUsers(doc), delivered) >>))

\* publishMeeting: meeting.publish, then one sendEmail per attendee with the
\* email preference; sendEmail is the emailService module object, so the
\* first call throws and the handler ends in next(error)
PublishCtlResult(id, actor) ==
  IF ~Exists(meetings, id)
  THEN Reject("publishCtl", id, 404, "not found")
  ELSE LET doc == meetings[id]
           chk == OwnerCheck(doc, actor)
           new == PublishMethod(doc, actor)
           wanted == {u \in AttendeeUsers(doc) : EmailPref(u)}
       IN IF chk = "throws" THEN Reject("publishCtl", id, 500, "owner check threw")
          ELSE IF chk = "forbidden" THEN Reject("publishCtl", id, 403, "owner")
          ELSE Out([meetings EXCEPT ![id] = new], archives,
                   IF wanted = {}
                   THEN Resp("publishCtl", id, 200, "", NoMail)
                   ELSE Resp("publishCtl", id, 500, "TypeError", NoMail))

\* the archive route with a re-entry guard: an archived meeting is refused
ArchiveRouteResult_Guarded(id, actor) ==
  IF ~AuthorizeRoles({"Secretary", "Controller"}, actor)
  THEN Reject("archiveRoute", id, 403, "role")
  ELSE IF ~Exists(meetings, id)
  THEN Reject("archiveRoute", id, 404, "not found")
  ELSE IF meetings[id].status # "completed"
  THEN Reject("archiveRoute", id, 400, "not completed")
  ELSE IF meetings[id].archived
  THEN Reject("archiveRoute", id, 400, "already archived")
  ELSE Out([meetings EXCEPT ![id] = Save(@, [@ EXCEPT !.archived = TRUE], FALSE)],
           archives, Resp("archiveRoute", id, 200, "", NoMail))

\* router.post('/:id/archive') (archivedAt is no schema path: the set is dropped)
ArchiveRouteResult(id, actor) ==
  IF ~AuthorizeRoles({"Secretary", "Controller"}, actor)
  THEN Reject("archiveRoute", id, 403, "role")
  ELSE IF ~Exists(meetings, id)
  THEN Reject("archiveRoute", id, 404, "not found")
  ELSE IF meetings[id].status # "completed"
  THEN Reject("archiveRoute", id, 400, "not completed")
  ELSE Out([meetings EXCEPT ![id] = Save(@, [@ EXCEPT !.archived = TRUE], FALSE)],
           archives, Resp("archiveRoute", id, 200, "", NoMail))

\* archiveMeeting
ArchiveCtlResult(id, actor) ==
  IF ~Exists(meetings, id)
  THEN Reject("archiveCtl", id, 404, "not found")
  ELSE IF ~IsControllerFlag(actor)
  THEN Reject("archiveCtl", id, 403, "controller")
  ELSE Out([meetings EXCEPT ![id] = ArchiveMethod(@)], archives,
           Resp("archiveCtl", id, 200, "", NoMail))

\* router.post('/:id/restore')
RestoreRouteResult(id, actor) ==
  IF ~AuthorizeRoles({"Secretary", "Controller"}, actor)
  THEN Reject("restoreRoute", id, 403, "role")
  ELSE IF ~Exists(meetings, id)
  THEN Reject("restoreRoute", id, 404, "not found")
  ELSE Out([meetings EXCEPT ![id] = Save(@, [@ EXCEPT !.archived = FALSE], FALSE)],
           archives, Resp("restoreRoute", id, 200, "", NoMail))

\* restoreMeeting
RestoreCtlResult(id, actor) ==
  IF ~Exists(meetings, id)
  THEN Reject("restoreCtl", id, 404, "not found")
  ELSE IF ~IsControllerFlag(actor)
  THEN Reject("restoreCtl", id, 403, "controller")
  ELSE Out([meetings EXCEPT ![id] = RestoreMethod(@)], archives,
           Resp("restoreCtl", id, 200, "", NoMail))

\* this.attendees.id(userId): the positions of the subdocuments whose _id is
\* userId (DocumentArray.id looks up by _id, not by the `user` path)
AttendeeById(att, userId) == {i \in DOMAIN att : att[i]._id = userId}

\* meetingSchema.methods.addAttendee(userId, status = 'present', ...): status ""
\* is an undefined argument, which takes the default
AddAttendeeMethod(doc, userId, status) ==
  LET st == IF status = "" THEN "present" ELSE status
      found == AttendeeById(doc.attendees, userId)
      first == CHOOSE i \in found : \A j \in found : i <= j
      att == IF found = {}
             THEN Append(doc.attendees,
                         [_id |-> ObjectIds[Len(doc.attendees) + 1],
                          user |-> userId, status |-> st])
             ELSE [doc.attendees EXCEPT ![first].status = st]
  IN Save(doc, [doc EXCEPT !.attendees = att], FALSE)

\* addAttendee (controller): owner check, User.findById, meeting.addAttendee,
\* then updatePerformance(1, 0) if req.body.status === 'present'
AddAttendeeResult(id, actor, userId, status) ==
  IF ~Exists(meetings, id)
  THEN Reject("addAttendee", id, 404, "not found")
  ELSE LET doc == meetings[id]
           chk == OwnerCheck(doc, actor)
       IN IF chk = "throws" THEN Reject("addAttendee", id, 500, "owner check threw")
          ELSE IF chk = "forbidden" THEN Reject("addAttendee", id, 403, "owner")
          ELSE IF userId \notin Users
          THEN Reject("addAttendee", id, 404, "user not found")
          ELSE OutPerf([meetings EXCEPT ![id] = AddAttendeeMethod(doc, userId, status)],
                       archives,
                       Resp("addAttendee", id, 200, "", NoMail),
                       IF status = "present" THEN IncAttended(perf, userId) ELSE perf)

\* minutes.actionItems.id(actionItemId): the positions whose _id matches
ItemById(items, actionItemId) ==
  {i \in DOMAIN items : items[i]._id = actionItemId}

\* a completeActionItem() that stamps the document whether or not it found the item
CompleteActionItemMethod_Touch(doc, actionItemId) ==
  LET hit == ItemById(doc.actionItems, actionItemId)
  IN IF hit = {} THEN Save(doc, doc, TRUE)
     ELSE LET i == CHOOSE k \in hit : \A j \in hit : k <= j
          IN Save(doc, [doc EXCEPT !.actionItems[i].status = "completed"], TRUE)

\* meetingSchema.methods.completeActionItem: the item found gets status
\* 'completed' and a fresh completionDate; the document is saved either way
CompleteActionItemMethod(doc, actionItemId) ==
  LET hit == ItemById(doc.actionItems, actionItemId)
  IN IF hit = {} THEN Save(doc, doc, FALSE)
     ELSE LET i == CHOOSE k \in hit : \A j \in hit : k <= j
          IN Save(doc, [doc EXCEPT !.actionItems[i].status = "completed"], TRUE)

\* completeActionItem: the method, then updatePerformance(0, 1) of the item's
\* assignee when the item and the user are found
CompleteActionItemResult(id, actionItemId) ==
  IF ~Exists(meetings, id)
  THEN Reject("completeActionItem", id, 404, "not found")
  ELSE LET saved == CompleteActionItemMethod(meetings[id], actionItemId)
           hit == ItemById(saved.actionItems, actionItemId)
           assignee == IF hit = {} THEN NoUser
                       ELSE saved.actionItems[CHOOSE k \in hit : \A j \in hit : k <= j].assignee
       IN OutPerf([meetings EXCEPT ![id] = saved], archives,
                  Resp("completeActionItem", id, 200, "", NoMail),
                  IF assignee \in Users THEN IncTasks(perf, assignee) ELSE perf)

\* a delete route guarded like the archive route: by role, not by isController
DeleteRouteResult_ByRole(id, actor) ==
  IF ~AuthorizeRoles({"Secretary", "Controller"}, actor)
  THEN Reject("deleteRoute", id, 403, "role")
  ELSE IF ~Exists(meetings, id)
  THEN Reject("deleteRoute", id, 404, "not found")
  ELSE Out([meetings EXCEPT ![id] = NoDoc], archives,
           Resp("deleteRoute", id, 200, "", NoMail))

\* router.delete('/:id'): findByIdAndDelete
DeleteRouteResult(id, actor) ==
  IF ~IsController(actor)
  THEN Reject("deleteRoute", id, 403, "controller")
  ELSE IF ~Exists(meetings, id)
  THEN Reject("deleteRoute", id, 404, "not found")
  ELSE Out([meetings EXCEPT ![id] = NoDoc], archives,
           Resp("deleteRoute", id, 200, "", NoMail))

\* Archive.create({itemId, itemType: 'meeting', originalData: meeting.toObject(), ...})
ArchiveRecord(id, doc, actor) ==
  [ itemId |-> id, itemType |-> "meeting", originalData |-> doc,
    archivedBy |-> actor, version |-> doc.version ]

\* deleteMeeting with the two writes in the other order: the record is removed
\* first, so a failed Archive write leaves it gone
DeleteCtlResult_RemoveFirst(id, actor, archiveOk) ==
  IF ~Exists(meetings, id)
  THEN Reject("deleteCtl", id, 404, "not found")
  ELSE IF ~IsControllerFlag(actor)
  THEN Reject("deleteCtl", id, 403, "controller")
  ELSE IF ~archiveOk
  THEN Out([meetings EXCEPT ![id] = NoDoc], archives,
           Resp("deleteCtl", id, 500, "archive write failed", NoMail))
  ELSE Out([meetings EXCEPT ![id] = NoDoc],
           Append(archives, ArchiveRecord(id, meetings[id], actor)),
           Resp("deleteCtl", id, 200, "", NoMail))

\* deleteMeeting: Archive.create, then meeting.deleteOne(); `archiveOk` is
\* whether the Archive write succeeds (a failed write throws into next(error))
DeleteCtlResult(id, actor, archiveOk) ==
  IF ~Exists(meetings, id)
  THEN Reject("deleteCtl", id, 404, "not found")
  ELSE IF ~IsControllerFlag(actor)
  THEN Reject("deleteCtl", id, 403, "controller")
  ELSE IF ~archiveOk
  THEN Reject("deleteCtl", id, 500, "archive write failed")
  ELSE Out([meetings EXCEPT ![id] = NoDoc],
           Append(archives, ArchiveRecord(id, meetings[id], actor)),
           Resp("deleteCtl", id, 200, "", NoMail))


\* ------------------------------------------------------------ request inputs
\* req.body.attendees of a create request (status "" is an omitted status)
AttendeeInputs ==
  { <<>>,
    << [userId |-> "sec", status |-> "late"], [userId |-> "mem", status |-> ""],
       [userId |-> "ctl", status |-> "absent"] >> }

\* a client-supplied previousVersions array, one entry longer than the hook keeps
ClientVersions ==
  [i \in 1..(KeepVersions + 1) |->
     [data |-> [title |-> "client"], version |-> i, updatedBy |-> NoUser]]

\* req.body of an update request in the lifecycle specification
Patches == { [title |-> "t2"] }

\* the users who create meetings through createMeeting
Creators == {"sec"}

\* the council staff: the roles the route handlers let through
Staff == {"ctl", "sec"}

\* the generateMeetingId suffixes drawn in the lifecycle specification
Suffixes == {7}

\* req.body.chairperson of a create request
Chairs == {"sec"}

\* req.body.summary of a minutes request
Summaries == {"", "s1"}

\* req.body of a minutes request that carries at most a summary
SummaryBody(summary) ==
  MinutesBody(IF summary = "" THEN {} ELSE {"summary"}, summary, <<>>, <<>>, "")

\* minutes.actionItems of a request body: each item names its _id and status;
\* the second has no assignee, the third an assignee that is no user
ActionItemInputs ==
  << [_id |-> "ai1", task |-> "a1", assignee |-> "mem", status |-> "pending"],
     [_id |-> "ai2", task |-> "a2", assignee |-> NoUser, status |-> "pending"],
     [_id |-> "ai3", task |-> "a3", assignee |-> "ghost", status |-> "in-progress"] >>

\* req.params.actionItemId: the _id of an item, or an id of no item
ActionItemIds == {"ai1", "ai2", "ai3", "zz"}

\* req.body of an update request that sets minutes.actionItems: the three
\* items, or one item recorded as completed from the start
ActionPatches ==
  { [actionItems |-> ActionItemInputs],
    [actionItems |->
       << [_id |-> "ai1", task |-> "a1", assignee |-> "sec", status |-> "completed"] >>] }

\* ------------------------------------------------------------------ actions
Handle(out) ==
  /\ meetings' = out.store
  /\ archives' = out.archives
  /\ resp' = out.resp
  /\ perf' = out.perf
  /\ UNCHANGED <<today, creq>>

\* a save of document `id` stays within the version cap
CanSave(id) == Exists(meetings, id) => meetings[id].version < MaxVersion

NoneCreated == \A i \in Ids : i >= nextId

\* the _ids requests name: those the store has handed out
Known == {i \in Ids : i < nextId}

CreateRoute(actor, chair, att, random) ==
  /\ nextId \in Ids
  /\ LET out == CreateRouteResult(actor, chair, att, random)
     IN /\ Handle(out)
        /\ nextId' = IF out.resp.code = 201 THEN nextId + 1 ELSE nextId

CreateCtl(actor, att) ==
  /\ nextId \in Ids
  /\ LET out == CreateCtlResult(actor, att)
     IN /\ Handle(out)
        /\ nextId' = IF out.resp.code = 201 THEN nextId + 1 ELSE nextId

UpdateRoute(id, actor, patch) ==
  Handle(UpdateRouteResult(id, actor, patch)) /\ UNCHANGED nextId

UpdateCtl(id, actor, patch) ==
  Handle(UpdateCtlResult(id, actor, patch)) /\ UNCHANGED nextId

UpdateMinutes(id, actor, body) ==
  CanSave(id) /\ Handle(UpdateMinutesResult(id, actor, body)) /\ UNCHANGED nextId

PublishRoute(id, actor, delivered) ==
  CanSave(id) /\ Handle(PublishRouteResult(id, actor, delivered)) /\ UNCHANGED nextId

PublishCtl(id, actor) ==
  CanSave(id) /\ Handle(PublishCtlResult(id, actor)) /\ UNCHANGED nextId

ArchiveRoute(id, actor) ==
  CanSave(id) /\ Handle(ArchiveRouteResult(id, actor)) /\ UNCHANGED nextId

ArchiveCtl(id, actor) ==
  CanSave(id) /\ Handle(ArchiveCtlResult(id, actor)) /\ UNCHANGED nextId

RestoreRoute(id, actor) ==
  CanSave(id) /\ Handle(RestoreRouteResult(id, actor)) /\ UNCHANGED nextId

RestoreCtl(id, actor) ==
  CanSave(id) /\ Handle(RestoreCtlResult(id, actor)) /\ UNCHANGED nextId

AddAttendee(id, actor, userId, status) ==
  /\ CanSave(id)
  /\ Handle(AddAttendeeResult(id, actor, userId, status))
  /\ UNCHANGED nextId

CompleteActionItem(id, actionItemId) ==
  /\ CanSave(id)
  /\ Handle(CompleteActionItemResult(id, actionItemId))
  /\ UNCHANGED nextId

DeleteRoute(id, actor) ==
  Handle(DeleteRouteResult(id, actor)) /\ UNCHANGED nextId

DeleteCtl(id, actor, archiveOk) ==
  Handle(DeleteCtlResult(id, actor, archiveOk)) /\ UNCHANGED nextId

\* ------------------------------------------------------------ specification
Init ==
  /\ meetings = [i \in Ids |-> NoDoc]
  /\ nextId = 1
  /\ archives = <<>>
  /\ today = 1
  /\ creq = [s \in Slots |-> Idle]
  /\ resp = NoResp
  /\ perf = [u \in Users |-> [meetingsAttended |-> 0, tasksCompleted |-> 0]]

\* The lifecycle of one meeting: sequential requests, each handler whole.
\* Update requests come from every user; the others from the council staff.
Next ==
  \/ \E a \in Staff, c \in Chairs, att \in AttendeeInputs, r \in Suffixes :
       NoneCreated /\ CreateRoute(a, c, att, r)
  \/ \E a \in Creators, att \in AttendeeInputs : NoneCreated /\ CreateCtl(a, att)
  \/ \E id \in Known, a \in Users, p \in Patches : UpdateRoute(id, a, p)
  \/ \E id \in Known, a \in Users, p \in Patches : UpdateCtl(id, a, p)
  \/ \E id \in Known, a \in Staff, s \in Summaries :
       UpdateMinutes(id, a, SummaryBody(s))
  \/ \E id \in Known, a \in Staff, ok \in BOOLEAN : PublishRoute(id, a, ok)
  \/ \E id \in Known, a \in Staff : PublishCtl(id, a)
  \/ \E id \in Known, a \in Staff : ArchiveRoute(id, a)
  \/ \E id \in Known, a \in Staff : ArchiveCtl(id, a)
  \/ \E id \in Known, a \in Staff : RestoreRoute(id, a)
  \/ \E id \in Known, a \in Staff : RestoreCtl(id, a)
  \/ \E id \in Known, a \in Staff : DeleteRoute(id, a)
  \/ \E id \in Known, a \in Staff, ok \in BOOLEAN : DeleteCtl(id, a, ok)

Spec == Init /\ [][Next]_vars


\* ------------------------------------------- create requests, step by step
\* Each await of a create request is a point where other requests run.
InFlight == {s \in Slots : creq[s] # Idle}

\* every request in flight can still be given an _id
RoomToCreate == (nextId - 1) + Cardinality(InFlight) < MaxMeetings

\* router.post('/') up to Meeting.create: the id is generated, the insert is pending
BeginCreateRoute(s, actor, chair, att, random) ==
  /\ creq[s] = Idle
  /\ RoomToCreate
  /\ AuthorizeRoles({"Secretary", "President", "Controller"}, actor)
  /\ creq' = [creq EXCEPT ![s] =
       [ pc |-> "insert", op |-> "createRoute",
         doc |-> NewDoc(GenerateMeetingId(today, random), today, "t1", "scheduled",
                        chair, NoUser, RouteAttendees(att)) ]]
  /\ UNCHANGED <<meetings, nextId, archives, today, resp, perf>>

\* createMeeting up to the hook's countDocuments: the date parts are taken
BeginCreateCtl(s, actor, att) ==
  /\ creq[s] = Idle
  /\ RoomToCreate
  /\ creq' = [creq EXCEPT ![s] =
       [ pc |-> "count", op |-> "createCtl", day |-> today,
         actor |-> actor, att |-> att ]]
  /\ UNCHANGED <<meetings, nextId, archives, today, resp, perf>>

\* the hook's countDocuments answers
HookCount(s) ==
  /\ creq[s] # Idle /\ creq[s].pc = "count"
  /\ creq' = [creq EXCEPT ![s] =
       [ pc |-> "assign", op |-> "createCtl", day |-> creq[s].day,
         count |-> CountToday(meetings, creq[s].day),
         actor |-> creq[s].actor, att |-> creq[s].att ]]
  /\ UNCHANGED <<meetings, nextId, archives, today, resp, perf>>

\* the hook assigns this.meetingId from the count it was given
HookAssign(s) ==
  /\ creq[s] # Idle /\ creq[s].pc = "assign"
  /\ creq' = [creq EXCEPT ![s] =
       [ pc |-> "insert", op |-> "createCtl",
         doc |-> NewDoc(HookMeetingId(creq[s].day, creq[s].count), today, "t1",
                        "draft", creq[s].actor, creq[s].actor,
                        CtlAttendees(creq[s].att)) ]]
  /\ UNCHANGED <<meetings, nextId, archives, today, resp, perf>>

\* the insert reaches the store: the unique index on meetingId decides;
\* createMeeting then $inc's its creator's meetingsAttended
InsertStep(s) ==
  /\ creq[s] # Idle /\ creq[s].pc = "insert"
  /\ nextId \in Ids
  /\ creq' = [creq EXCEPT ![s] = Idle]
  /\ archives' = archives
  /\ today' = today
  /\ IF DuplicateKey(meetings, creq[s].doc.meetingId)
     THEN /\ meetings' = meetings
          /\ nextId' = nextId
          /\ resp' = Resp(creq[s].op, 0, 500, "duplicate key", NoMail)
          /\ perf' = perf
     ELSE /\ meetings' = Insert(meetings, nextId, creq[s].doc)
          /\ nextId' = nextId + 1
          /\ resp' = Resp(creq[s].op, nextId, 201, "", NoMail)
          /\ perf' = IF creq[s].op = "createCtl"
                     THEN IncAttended(perf, creq[s].doc.createdBy)
                     ELSE perf

\* midnight
Tick ==
  /\ today < MaxDay
  /\ today' = today + 1
  /\ UNCHANGED <<meetings, nextId, archives, creq, resp, perf>>

\* Creations and deletions of one or two days, the create requests interleaved
NextCreate ==
  \/ \E s \in Slots, a \in Creators, c \in Chairs, r \in 0..(RandRange - 1) :
       BeginCreateRoute(s, a, c, <<>>, r)
  \/ \E s \in Slots, a \in Creators : BeginCreateCtl(s, a, <<>>)
  \/ \E s \in Slots : HookCount(s)
  \/ \E s \in Slots : HookAssign(s)
  \/ \E s \in Slots : InsertStep(s)
  \/ \E id \in Known : DeleteCtl(id, "ctl", TRUE)
  \/ Tick

SpecCreate == Init /\ [][NextCreate]_vars


\* ------------------------------------------- update bodies naming any path
\* req.body of an update request that names bookkeeping paths or the parts of
\* the minutes
BodyPatches ==
  { [title |-> "t2"],
    [keyPoints |-> <<"k1">>, attachments |-> <<"f1">>],
    [status |-> "in-progress"],
    [archived |-> TRUE],
    [published |-> TRUE],
    [summary |-> ""],
    [meetingId |-> MeetingId(1, 0)],
    [previousVersions |-> ClientVersions] }

\* One meeting, its minutes, and update requests whose body names any path
NextBody ==
  \/ \E a \in Staff, c \in Chairs, r \in Suffixes :
       NoneCreated /\ CreateRoute(a, c, <<>>, r)
  \/ \E id \in Known, a \in Staff, p \in BodyPatches : UpdateRoute(id, a, p)
  \/ \E id \in Known, a \in Staff, s \in Summaries :
       UpdateMinutes(id, a, SummaryBody(s))

SpecBody == Init /\ [][NextBody]_vars

\* ---------------------------------------------------------- minutes requests
MinutesFields == {"summary", "decisions", "actionItems", "nextMeeting"}

\* the values a minutes request carries: filled fields, or another summary
\* with empty arrays and a null nextMeeting
MinutesValues ==
  { MinutesBody({}, "s1", <<"d1">>, <<"a1">>, "n1"),
    MinutesBody({}, "s2", <<>>, <<>>, ""),
    MinutesBody({}, "", <<"d2">>, <<>>, "n1") }

\* req.body of a minutes request: any of the four fields present or omitted
MinutesBodies ==
  { [v EXCEPT !.has = has] : has \in SUBSET MinutesFields, v \in MinutesValues }

\* One meeting and its minutes requests
NextMinutes ==
  \/ \E a \in Staff, c \in Chairs, r \in Suffixes :
       NoneCreated /\ CreateRoute(a, c, <<>>, r)
  \/ \E id \in Known, a \in Staff, b \in MinutesBodies : UpdateMinutes(id, a, b)

SpecMinutes == Init /\ [][NextMinutes]_vars

\* req.body of an update request that sets the status (and names it in the title)
StatusPatches == { [title |-> s, status |-> s] : s \in Statuses }

\* One meeting taken to any status by update requests, and its minutes requests
NextStatus ==
  \/ \E a \in Staff, c \in Chairs, r \in Suffixes :
       NoneCreated /\ CreateRoute(a, c, <<>>, r)
  \/ \E id \in Known, p \in StatusPatches : UpdateRoute(id, "sec", p)
  \/ \E id \in Known, a \in Staff, s \in Summaries :
       UpdateMinutes(id, a, SummaryBody(s))

SpecStatus == Init /\ [][NextStatus]_vars

\* ---------------------------------------------------------------- attendees
\* req.body.userId of an attendee request: a user, or an id of no user
AttendeeIds == Users \cup {"ghost"}

\* req.body.status of an attendee request ("" is an omitted status)
AttendeeStatuses == AttStatuses \cup {""}

\* One meeting and the attendee requests on it
NextAttend ==
  \/ \E a \in Staff, c \in Chairs, att \in AttendeeInputs, r \in Suffixes :
       NoneCreated /\ CreateRoute(a, c, att, r)
  \/ \E a \in Creators, att \in AttendeeInputs : NoneCreated /\ CreateCtl(a, att)
  \/ \E id \in Known, a \in Users, u \in AttendeeIds, st \in AttendeeStatuses :
       AddAttendee(id, a, u, st)

SpecAttend == Init /\ [][NextAttend]_vars

\* ------------------------------------------------- repeated archive / restore
\* One meeting, taken to any status by update requests, archived and
\* restored any number of times through both entry points
NextIdem ==
  \/ \E a \in Staff, c \in Chairs, r \in Suffixes :
       NoneCreated /\ CreateRoute(a, c, <<>>, r)
  \/ \E a \in Creators : NoneCreated /\ CreateCtl(a, <<>>)
  \/ \E id \in Known, p \in StatusPatches : UpdateRoute(id, "sec", p)
  \/ \E id \in Known, a \in Staff : ArchiveRoute(id, a)
  \/ \E id \in Known, a \in Staff : ArchiveCtl(id, a)
  \/ \E id \in Known, a \in Staff : RestoreRoute(id, a)
  \/ \E id \in Known, a \in Staff : RestoreCtl(id, a)

SpecIdem == Init /\ [][NextIdem]_vars

\* ------------------------------------------------------------- action items
\* One meeting, its action items set by update and minutes requests, and the
\* requests that complete them
NextAction ==
  \/ \E a \in Staff, c \in Chairs, r \in Suffixes :
       NoneCreated /\ CreateRoute(a, c, <<>>, r)
  \/ \E a \in Creators : NoneCreated /\ CreateCtl(a, <<>>)
  \/ \E id \in Known, p \in ActionPatches : UpdateRoute(id, "sec", p)
  \/ \E id \in Known, a \in Staff :
       UpdateMinutes(id, a, MinutesBody({"actionItems"}, "", <<>>, ActionItemInputs, ""))
  \/ \E id \in Known, aid \in ActionItemIds : CompleteActionItem(id, aid)

SpecAction == Init /\ [][NextAction]_vars

\* ------------------------------------------------- update and delete callers
\* One meeting, created by any user through either entry point with any
\* chairperson, then updated and deleted by any user
NextAuth ==
  \/ \E a \in Staff, c \in Users, r \in Suffixes :
       NoneCreated /\ CreateRoute(a, c, <<>>, r)
  \/ \E a \in Users : NoneCreated /\ CreateCtl(a, <<>>)
  \/ \E id \in Known, a \in Users, p \in Patches : UpdateRoute(id, a, p)
  \/ \E id \in Known, a \in Users, p \in Patches : UpdateCtl(id, a, p)
  \/ \E id \in Known, a \in Users : DeleteRoute(id, a)
  \/ \E id \in Known, a \in Users, ok \in BOOLEAN : DeleteCtl(id, a, ok)

SpecAuth == Init /\ [][NextAuth]_vars

\* ------------------------------------------- creations and deletions in turn
\* The meetings of one calendar day: createMeeting and the two DELETE
\* handlers, one request at a time
NextSeq ==
  \/ \E a \in Creators, att \in AttendeeInputs : CreateCtl(a, att)
  \/ \E id \in Known : DeleteRoute(id, "ctl")
  \/ \E id \in Known, ok \in BOOLEAN : DeleteCtl(id, "ctl", ok)

SpecSeq == Init /\ [][NextSeq]_vars

\* ------------------------------------- requests that read, await, then write
\* Between a handler's findById and its save() or deleteOne() other requests
\* run.  save() sends the paths the handler modified and, because the hook
\* $sets the previousVersions array, matches on the __v it loaded.

\* the paths a minutes request's save() writes
MinutesWrites ==
  { "summary", "keyPoints", "attachments", "decisions", "actionItems",
    "nextMeeting", "status", "version", "previousVersions", "__v" }

\* router.put('/:id/minutes') up to its save(): the document is loaded
MinutesRead(s, id, actor, body) ==
  /\ creq[s] = Idle
  /\ AuthorizeRoles({"Secretary", "Controller"}, actor)
  /\ Exists(meetings, id)
  /\ meetings[id].version < MaxVersion
  /\ creq' = [creq EXCEPT ![s] =
       [ pc |-> "save", op |-> "updateMinutes", id |-> id, actor |-> actor,
         body |-> body, doc |-> meetings[id] ]]
  /\ UNCHANGED <<meetings, nextId, archives, today, resp, perf>>

\* the save() of a minutes request reaches the store: refused when the
\* document is gone or its __v has moved on, else the modified paths are written
MinutesSave(s) ==
  /\ creq[s] # Idle /\ creq[s].pc = "save"
  /\ LET r == creq[s]
         stored == meetings[r.id]
         saved == Save(r.doc, MinutesAssign(r.doc, r.body), TRUE)
     IN IF stored = NoDoc
        THEN /\ meetings' = meetings
             /\ resp' = Resp(r.op, r.id, 500, "document not found", NoMail)
        ELSE IF stored.__v # r.doc.__v
        THEN /\ meetings' = meetings
             /\ resp' = Resp(r.op, r.id, 500, "version error", NoMail)
        ELSE /\ meetings' = [meetings EXCEPT ![r.id] =
                  [f \in DOMAIN stored |->
                     IF f \in MinutesWrites THEN saved[f] ELSE stored[f]]]
             /\ resp' = Resp(r.op, r.id, 200, "", NoMail)
  /\ creq' = [creq EXCEPT ![s] = Idle]
  /\ UNCHANGED <<nextId, archives, today, perf>>

\* deleteMeeting up to Archive.create: the document is loaded, the caller checked
DeleteRead(s, id, actor) ==
  /\ creq[s] = Idle
  /\ Exists(meetings, id)
  /\ IsControllerFlag(actor)
  /\ creq' = [creq EXCEPT ![s] =
       [ pc |-> "archive", op |-> "deleteCtl", id |-> id, actor |-> actor,
         doc |-> meetings[id] ]]
  /\ UNCHANGED <<meetings, nextId, archives, today, resp, perf>>

\* Archive.create({originalData: meeting.toObject(), ...}) of the loaded document
DeleteArchive(s) ==
  /\ creq[s] # Idle /\ creq[s].pc = "archive"
  /\ archives' = Append(archives, ArchiveRecord(creq[s].id, creq[s].doc, creq[s].actor))
  /\ creq' = [creq EXCEPT ![s] = [creq[s] EXCEPT !.pc = "remove"]]
  /\ UNCHANGED <<meetings, nextId, today, resp, perf>>

\* meeting.deleteOne(): the document with this _id is removed, whatever it holds
DeleteRemove(s) ==
  /\ creq[s] # Idle /\ creq[s].pc = "remove"
  /\ meetings' = [meetings EXCEPT ![creq[s].id] = NoDoc]
  /\ resp' = Resp(creq[s].op, creq[s].id, 200, "", NoMail)
  /\ creq' = [creq EXCEPT ![s] = Idle]
  /\ UNCHANGED <<nextId, archives, today, perf>>

\* One meeting; update requests (one findByIdAndUpdate each) run between the
\* read and the write of minutes and delete requests
NextRace ==
  \/ \E a \in Staff, c \in Chairs, r \in Suffixes :
       NoneCreated /\ CreateRoute(a, c, <<>>, r)
  \/ \E id \in Known, p \in Patches : UpdateRoute(id, "sec", p)
  \/ \E s \in Slots, id \in Known, a \in Staff :
       MinutesRead(s, id, a, SummaryBody("s1"))
  \/ \E s \in Slots : MinutesSave(s)
  \/ \E s \in Slots, id \in Known : DeleteRead(s, id, "ctl")
  \/ \E s \in Slots : DeleteArchive(s)
  \/ \E s \in Slots : DeleteRemove(s)

SpecRace == Init /\ [][NextRace]_vars

\* ------------------------------------------------------------------ claims
\* the errors of a caller the handler does not let through
AuthErrs == {"role", "owner", "controller", "owner check threw"}

ArchivedIds == {archives[i].itemId : i \in DOMAIN archives}

\* C1: every meeting that existed and is gone from the store has an Archive
\* record written for it, whichever DELETE handler removed it
C1_RemovedOnlyWhenArchived ==
  \A id \in Known : meetings[id] = NoDoc => id \in ArchivedIds

\* C2: when the Archive write of deleteMeeting fails, the meetings collection
\* and the Archive collection are as before and the response is an error
C2_DeleteFailsClosed ==
  [][ (resp'.op = "deleteCtl" /\ resp'.err = "archive write failed")
        => /\ meetings' = meetings
           /\ archives' = archives
           /\ Exists(meetings', resp'.id)
           /\ resp'.code = 500 ]_vars

\* a delete whose Archive write failed has answered and the meeting is stored
C2_Witness ==
  /\ resp.op = "deleteCtl"
  /\ resp.err = "archive write failed"
  /\ Exists(meetings, resp.id)
  /\ meetings[resp.id].version > DefaultVersion

Assigned(s) == creq[s] # Idle /\ creq[s].pc = "insert"

\* C3: no two create requests are assigned the same meetingId, and none is
\* assigned the meetingId of a stored meeting, however their steps interleave
C3_AssignedIdsDiffer ==
  /\ \A s1, s2 \in Slots :
       (s1 # s2 /\ Assigned(s1) /\ Assigned(s2))
         => creq[s1].doc.meetingId # creq[s2].doc.meetingId
  /\ \A s \in Slots : Assigned(s) => ~DuplicateKey(meetings, creq[s].doc.meetingId)

UpdateOps == {"updateRoute", "updateCtl"}

\* C4: every successful update raises the meeting's version by exactly 1
C4_UpdateBumpsVersion ==
  [][ (resp'.op \in UpdateOps /\ resp'.code = 200)
        => meetings'[resp'.id].version = meetings[resp'.id].version + 1 ]_vars

\* C5: previousVersions never holds more than 5 entries
C5_AtMostFiveVersions ==
  \A id \in Ids : Exists(meetings, id) => Len(meetings[id].previousVersions) <= KeepVersions

\* the step is a hook-versioned save of document id
VersionedSave(id) ==
  /\ Exists(meetings, id) /\ Exists(meetings', id)
  /\ meetings'[id].version = meetings[id].version + 1
  /\ meetings'[id].previousVersions # <<>>

\* C6: the entry a mutating save appends is labelled with the version before
\* the save and holds the field values the record had before the change
C6_SnapshotIsPreState ==
  [][ \A id \in Ids :
        VersionedSave(id)
          => LET pv == meetings'[id].previousVersions
                 e == pv[Len(pv)]
             IN /\ e.version = meetings[id].version
                /\ e.data = Snapshot(meetings[id]) ]_vars

ArchiveOps == {"archiveRoute", "archiveCtl"}

\* C7: archive of a meeting whose status is not completed answers 400 and
\* changes nothing, on both entry points (for a caller the handler lets through)
C7_ArchiveRejectsIncomplete ==
  [][ ( /\ resp'.op \in ArchiveOps
        /\ resp'.err \notin AuthErrs
        /\ Exists(meetings, resp'.id)
        /\ meetings[resp'.id].status # "completed" )
        => (resp'.code = 400 /\ meetings' = meetings) ]_vars

\* C8: a step that turns archived from false to true starts from status completed
C8_ArchivedOnlyFromCompleted ==
  [][ \A id \in Ids :
        ( /\ Exists(meetings, id) /\ Exists(meetings', id)
          /\ ~meetings[id].archived /\ meetings'[id].archived )
          => meetings[id].status = "completed" ]_vars

PublishOps == {"publishRoute", "publishCtl"}

\* C9: publish of a meeting without a minutes summary answers 400, changes
\* nothing and sends no mail, on both entry points (for a caller the handler
\* lets through)
C9_PublishRejectsNoSummary ==
  [][ ( /\ resp'.op \in PublishOps
        /\ resp'.err \notin AuthErrs
        /\ Exists(meetings, resp'.id)
        /\ meetings[resp'.id].summary = "" )
        => (resp'.code = 400 /\ meetings' = meetings /\ resp'.mails = NoMail) ]_vars

\* C10: a published meeting has a non-empty minutes summary
C10_PublishedHasSummary ==
  \A id \in Ids :
    (Exists(meetings, id) /\ meetings[id].published) => meetings[id].summary # ""

\* C11: a successful publish sets published and publishedBy and leaves the
\* meeting's status as it was before the call, on both entry points
C11_PublishKeepsStatus ==
  [][ (resp'.op \in PublishOps /\ resp'.code = 200)
        => /\ meetings'[resp'.id].published
           /\ meetings'[resp'.id].publishedBy # NoUser
           /\ meetings'[resp'.id].status = meetings[resp'.id].status ]_vars

\* the sendMail calls of `mails` that address user u
AttemptsTo(mails, u) == Cardinality({i \in DOMAIN mails : u \in mails[i].to})

\* the attendees of a meeting who have the email preference enabled
Wanted(doc) == {u \in AttendeeUsers(doc) : EmailPref(u)}

\* C12: a successful publish makes exactly one notification attempt for each
\* attendee with the email preference enabled and none for any other user
C12_OneAttemptPerEnabledAttendee ==
  [][ (resp'.op \in PublishOps /\ resp'.code = 200)
        => \A u \in Users :
             AttemptsTo(resp'.mails, u) =
               IF u \in Wanted(meetings'[resp'.id]) THEN 1 ELSE 0 ]_vars

\* the notification of some attendee failed: the send threw, or a sendMail
\* call did not deliver
NotifyFailed(r) == r.err = "TypeError" \/ \E i \in DOMAIN r.mails : ~r.mails[i].ok

\* C13: when the notification of one attendee fails during publish, an
\* attempt is still made for every other attendee with the email preference
\* enabled: at most the failing one is left without an attempt
C13_FailureDoesNotAbortOthers ==
  [][ (resp'.op \in PublishOps /\ NotifyFailed(resp'))
        => Cardinality({u \in Wanted(meetings'[resp'.id]) :
                          AttemptsTo(resp'.mails, u) = 0}) <= 1 ]_vars

\* C14: publish of a meeting with a minutes summary reports success and
\* stores published = true, whether or not a notification fails (for a
\* caller the handler lets through)
C14_NotifierNeverFailsPublish ==
  [][ ( /\ resp'.op \in PublishOps
        /\ resp'.err \notin AuthErrs
        /\ Exists(meetings, resp'.id)
        /\ meetings[resp'.id].summary # "" )
        => (resp'.code = 200 /\ meetings'[resp'.id].published) ]_vars

\* C15: after every successful minutes request the meeting's status is
\* completed, whatever its status was before
C15_MinutesForceCompleted ==
  [][ (resp'.op = "updateMinutes" /\ resp'.code = 200)
        => meetings'[resp'.id].status = "completed" ]_vars

\* the first save of a meeting is a minutes request that found it cancelled:
\* the last update request before it set title and status to "cancelled"
C15_Witness ==
  /\ resp.op = "updateMinutes" /\ resp.code = 200
  /\ Exists(meetings, resp.id)
  /\ meetings[resp.id].title = "cancelled"
  /\ meetings[resp.id].version = DefaultVersion + 1
  /\ meetings[resp.id].status = "completed"

\* C16: a minutes request replaces summary, decisions, actionItems and
\* nextMeeting only when the body carries the field; an omitted field keeps
\* its prior value, and omitted decisions / actionItems never set are empty
C16_MinutesMerge ==
  [][ \A id \in Ids, a \in Staff, b \in MinutesBodies :
        (UpdateMinutes(id, a, b) /\ resp'.code = 200)
          => LET old == meetings[id]
                 new == meetings'[id]
             IN /\ \A f \in {"summary", "nextMeeting"} :
                     /\ f \notin b.has => new[f] = old[f]
                     /\ new[f] # old[f] => (f \in b.has /\ new[f] = b[f])
                     /\ (f \in b.has /\ b[f] # "") => new[f] = b[f]
                /\ \A f \in {"decisions", "actionItems"} :
                     /\ f \notin b.has => new[f] = old[f]
                     /\ f \in b.has => new[f] = b[f]
                     /\ (f \notin b.has /\ old[f] = <<>>) => new[f] = <<>> ]_vars

\* a stored summary and stored decisions that no single body carries: the
\* later request omitted a field and the earlier value was kept
C16_Witness ==
  /\ resp.op = "updateMinutes" /\ resp.code = 200
  /\ Exists(meetings, resp.id)
  /\ meetings[resp.id].summary = "s2"
  /\ meetings[resp.id].decisions = <<"d1">>
  /\ meetings[resp.id].nextMeeting = "n1"

\* C17: a meeting's attendees list holds at most one entry per user, after
\* any sequence of create and addAttendee requests
C17_OneEntryPerUser ==
  \A id \in Ids :
    Exists(meetings, id)
      => \A i, j \in DOMAIN meetings[id].attendees :
           i # j => meetings[id].attendees[i].user # meetings[id].attendees[j].user

\* the entry an addAttendee call wrote for userId: the one it pushed, or the
\* one it found
Recorded(old, new, userId) ==
  IF Len(new.attendees) > Len(old.attendees)
  THEN new.attendees[Len(new.attendees)]
  ELSE new.attendees[CHOOSE i \in AttendeeById(new.attendees, userId) : TRUE]

\* C18: an addAttendee call that records status present raises that user's
\* meetingsAttended by exactly 1; one that records absent, late or excused
\* leaves it unchanged; no other user's counter changes
C18_PresentCountsOnce ==
  [][ \A id \in Ids, a \in Users, u \in Users, st \in AttendeeStatuses :
        (AddAttendee(id, a, u, st) /\ resp'.code = 200)
          => /\ perf'[u].meetingsAttended =
                  IF Recorded(meetings[id], meetings'[id], u).status = "present"
                  THEN perf[u].meetingsAttended + 1 ELSE perf[u].meetingsAttended
             /\ \A v \in Users \ {u} : perf'[v] = perf[v] ]_vars

RestoreOps == {"restoreRoute", "restoreCtl"}

\* C19: restore of a meeting that is not archived answers 200 and leaves the
\* whole record (version and previousVersions included) as it was, on both
\* entry points (for a caller the handler lets through)
C19_RestoreIdempotent ==
  [][ ( /\ resp'.op \in RestoreOps
        /\ resp'.err \notin AuthErrs
        /\ Exists(meetings, resp'.id)
        /\ ~meetings[resp'.id].archived )
        => (resp'.code = 200 /\ meetings' = meetings /\ archives' = archives) ]_vars

\* a restore has answered 200 for a meeting that no save has ever versioned:
\* it was not archived when the restore ran
C19_Witness ==
  /\ resp.op \in RestoreOps /\ resp.code = 200
  /\ Exists(meetings, resp.id)
  /\ ~meetings[resp.id].archived
  /\ meetings[resp.id].version = DefaultVersion
  /\ meetings[resp.id].previousVersions = <<>>

\* C20: archive of a completed meeting answers 200 and leaves archived = true,
\* also when the meeting is archived already, and then changes nothing (for
\* a caller the handler lets through)
C20_ArchiveIdempotent ==
  [][ ( /\ resp'.op \in ArchiveOps
        /\ resp'.err \notin AuthErrs
        /\ Exists(meetings, resp'.id)
        /\ meetings[resp'.id].status = "completed" )
        => /\ resp'.code = 200
           /\ meetings'[resp'.id].archived
           /\ meetings[resp'.id].archived => meetings' = meetings ]_vars

\* the archive route has answered 200 for a completed meeting whose last
\* versioned save archived it while it was still scheduled: the meeting was
\* archived already when the route ran
C20_Witness ==
  /\ resp.op = "archiveRoute" /\ resp.code = 200
  /\ Exists(meetings, resp.id)
  /\ meetings[resp.id].archived
  /\ meetings[resp.id].status = "completed"
  /\ meetings[resp.id].previousVersions # <<>>
  /\ LET pv == meetings[resp.id].previousVersions
     IN pv[Len(pv)].data.archived /\ pv[Len(pv)].data.status = "scheduled"

\* the paths archive and restore may write: the flag, the hook's versioning and
\* the revision key of the save
ArchiveWrites == {"archived", "version", "previousVersions", "__v"}

\* C21: a successful archive or restore, on either entry point, leaves the
\* status and every other path but the archived flag (and the hook's version
\* and previousVersions) as they were; archive leaves archived = true,
\* restore leaves archived = false
C21_ArchiveRestoreKeepStatus ==
  [][ (resp'.op \in (ArchiveOps \cup RestoreOps) /\ resp'.code = 200)
        => LET old == meetings[resp'.id]
               new == meetings'[resp'.id]
           IN /\ new.status = old.status
              /\ new.archived = (resp'.op \in ArchiveOps)
              /\ \A f \in (DOMAIN old) \ ArchiveWrites : new[f] = old[f] ]_vars

\* a restore has answered 200 for a completed meeting whose two versioned
\* saves were its archive (as completed) and this restore
C21_Witness ==
  /\ resp.op \in RestoreOps /\ resp.code = 200
  /\ Exists(meetings, resp.id)
  /\ meetings[resp.id].status = "completed"
  /\ ~meetings[resp.id].archived
  /\ LET pv == meetings[resp.id].previousVersions
     IN /\ Len(pv) = 2
        /\ pv[1].data.archived /\ pv[1].data.status = "completed"
        /\ ~pv[2].data.archived /\ pv[2].data.status = "completed"

\* C22: completeActionItem with an id that matches no action item of the
\* meeting answers 200 and changes nothing: the meeting record (its action
\* items, version and previousVersions) and every user's counters are as before
C22_UnknownItemIsNoOp ==
  [][ \A id \in Ids, aid \in ActionItemIds :
        ( /\ CompleteActionItem(id, aid)
          /\ Exists(meetings, id)
          /\ ItemById(meetings[id].actionItems, aid) = {} )
          => (resp'.code = 200 /\ meetings' = meetings /\ perf' = perf) ]_vars

\* completeActionItem has answered 200 for a meeting that has action items,
\* none of them completed, and that no save has versioned: the id it was
\* given matched none of them
C22_Witness ==
  /\ resp.op = "completeActionItem" /\ resp.code = 200
  /\ Exists(meetings, resp.id)
  /\ meetings[resp.id].actionItems # <<>>
  /\ \A i \in DOMAIN meetings[resp.id].actionItems :
       meetings[resp.id].actionItems[i].status # "completed"
  /\ meetings[resp.id].version = DefaultVersion
  /\ \A u \in Users : perf[u].tasksCompleted = 0

\* C29: completeActionItem on an action item whose status is completed
\* already does not raise any user's tasksCompleted again
C29_TaskCountedOnce ==
  [][ \A id \in Ids, aid \in ActionItemIds :
        ( /\ CompleteActionItem(id, aid)
          /\ Exists(meetings, id)
          /\ \E i \in ItemById(meetings[id].actionItems, aid) :
               meetings[id].actionItems[i].status = "completed" )
          => \A u \in Users : perf'[u].tasksCompleted = perf[u].tasksCompleted ]_vars

\* C23: a stored meeting keeps the meetingId it was created with: no step
\* changes the meetingId of a meeting that stays in the store
C23_MeetingIdImmutable ==
  [][ \A id \in Ids :
        (Exists(meetings, id) /\ Exists(meetings', id))
          => meetings'[id].meetingId = meetings[id].meetingId ]_vars

\* the actor is neither a controller nor the meeting's creator nor its chairperson
Outsider(doc, actor) ==
  /\ ~IsControllerFlag(actor)
  /\ doc.createdBy # actor
  /\ doc.chairperson # actor

\* C24: an update by an actor who is neither controller nor createdBy nor
\* chairperson answers 403 and leaves the record unchanged; an update of an
\* id that matches no record answers 404 (or 403 when the caller's role is
\* refused before the lookup)
C24_UpdateForbiddenOrNotFound ==
  [][ \A id \in Ids, a \in Users, p \in Patches :
        (UpdateRoute(id, a, p) \/ UpdateCtl(id, a, p))
          => /\ (Exists(meetings, id) /\ Outsider(meetings[id], a))
                  => (resp'.code = 403 /\ meetings' = meetings)
             /\ ~Exists(meetings, id)
                  => (resp'.code = 404 \/ resp'.err = "role") ]_vars

DeleteOps == {"deleteRoute", "deleteCtl"}

\* C25: a delete by an actor who is not a controller writes no Archive record
\* and leaves the meetings collection unchanged, and answers 403 when the
\* meeting exists (404 from deleteMeeting when it does not)
C25_DeleteForbidden ==
  [][ \A id \in Ids, a \in Users, ok \in BOOLEAN :
        ((DeleteRoute(id, a) \/ DeleteCtl(id, a, ok)) /\ ~IsControllerFlag(a))
          => /\ meetings' = meetings
             /\ archives' = archives
             /\ resp'.code \in {403, 404}
             /\ Exists(meetings, id) => resp'.code = 403 ]_vars

\* a delete has been refused with 403 for a meeting that is in the store
C25_Witness ==
  /\ resp.op \in DeleteOps /\ resp.code = 403
  /\ Exists(meetings, resp.id)
  /\ archives = <<>>

\* C28: in a sequence of whole createMeeting and delete requests of one day,
\* the meetingId the hook derives from its count is held by no stored meeting
\* and the create answers 201
C28_SequentialCreateNeverCollides ==
  [][ \A a \in Creators, att \in AttendeeInputs :
        CreateCtl(a, att)
          => /\ ~DuplicateKey(meetings, HookMeetingId(today, CountToday(meetings, today)))
             /\ resp'.code = 201 ]_vars

\* C30: a successful minutes request leaves minutes.keyPoints and
\* minutes.attachments as they were
C30_MinutesKeepOtherParts ==
  [][ (resp'.op = "updateMinutes" /\ resp'.code = 200)
        => /\ meetings'[resp'.id].keyPoints = meetings[resp'.id].keyPoints
           /\ meetings'[resp'.id].attachments = meetings[resp'.id].attachments ]_vars

\* C26: when a minutes request saves successfully after another request
\* changed the record since it was loaded, the stored record keeps the other
\* request's changes, version and previousVersions have moved by 2 since the
\* load, and the history entry written agrees with the stored record on the
\* paths this request did not write
C26_NoLostUpdate ==
  [][ \A s \in Slots :
        ( /\ MinutesSave(s)
          /\ resp'.code = 200
          /\ meetings[creq[s].id] # creq[s].doc )
          => LET loaded == creq[s].doc
                 stored == meetings[creq[s].id]
                 new == meetings'[creq[s].id]
                 others == (DOMAIN stored) \ MinutesWrites
             IN /\ \A f \in others : new[f] = stored[f]
                /\ new.version = loaded.version + 2
                /\ Len(new.previousVersions) = Len(loaded.previousVersions) + 2
                /\ \A f \in others :
                     new.previousVersions[Len(new.previousVersions)].data[f] = stored[f]
    ]_vars

\* C27: when deleteMeeting removes a meeting, the Archive record it wrote
\* holds the meeting as it is stored at that moment
C27_ArchiveHoldsRemovedState ==
  [][ \A s \in Slots :
        (DeleteRemove(s) /\ Exists(meetings, creq[s].id))
          => \E i \in DOMAIN archives :
               /\ archives[i] = ArchiveRecord(creq[s].id, creq[s].doc, creq[s].actor)
               /\ archives[i].originalData = meetings[creq[s].id] ]_vars

====
